---- MODULE Spec2Model ----
(***************************************************************************)
(* Model of rubintv_guide: the ConsDB client (src/cdb.py) with its         *)
(* lru_cache'd _query and the retry loop of query, and the block           *)
(* segmentation group_into_blocks (src/scrape_blocks.py).                  *)
(***************************************************************************)
EXTENDS Integers, Sequences, FiniteSets, TLC

\* ------------------------------------------------------------------ bounds
NumQueries == 2      \* distinct query strings issued through one client
MaxRetries == 3      \* largest n_retries a caller passes (0 .. MaxRetries)
MaxCalls == 2        \* calls of ConsDB.query during the client's lifetime
NumData == 2         \* distinct data sets the remote may answer with
MaxLen == 4          \* longest exposure table handed to group_into_blocks
Exposure == 2        \* minutes between obs_start and obs_end of an exposure

\* ------------------------------------------------- program constants
LruMaxSize == 128    \* functools.lru_cache() default maxsize
DefaultMaxGap == 15  \* group_into_blocks(max_gap=15*u.min), --max-gap default
Unmarked == -999     \* table["block"] = -999

VARIABLES
    cache,       \* lru_cache store of _query: <<[query, value]>>, least recent first
    pc,          \* position of the caller in ConsDB.query: "idle" | "loop"
    query,       \* argument query of the running call
    n_retries,   \* argument n_retries of the running call
    attempt,     \* local attempt of the running call
    result,      \* how the last call left: [how, table, exc]
    attempts,    \* per attempt of the running/last call: [net, value, site, slept]
    history      \* completed calls: [query, n_retries, result, requests, neterrs]

cdbVars == <<cache, pc, query, n_retries, attempt, result, attempts, history>>

VARIABLES
    raw,         \* rows of the Table cdb.query returned to query_exposure_records
    table,       \* argument table of group_into_blocks: rows, in minutes
    colnames,    \* table.colnames
    max_gap,     \* argument max_gap, in minutes
    pcB,         \* position of main: "idle" | "load" | "enter" | "loop" | "done"
    i,           \* loop index of `for i, row in enumerate(table)`
    begin_row,   \* index of begin_row
    block_id,    \* local block_id
    blocks,      \* local blocks, the returned list
    blockCol,    \* table["block"], <<>> while the column does not exist
    outcome      \* how group_into_blocks left: "none" | "return" | "ValueError"

blkVars == <<raw, table, colnames, max_gap, pcB, i, begin_row, block_id, blocks, blockCol, outcome>>

vars == <<cdbVars, blkVars>>

Queries == 1..NumQueries

\* ------------------------------------------------ the remote service
Fields == {"missing", "empty", "full"}

NotObject == [shape |-> "other", columns |-> "missing", data |-> "missing", ver |-> 0]

\* what response.json() can yield: a JSON object whose "columns"/"data"
\* members are absent, falsy or non-empty (ver names the data set), or a
\* JSON value that is not an object
Bodies ==
    {NotObject} \cup
    {b \in [shape : {"object"}, columns : Fields, data : Fields, ver : 0..NumData] :
        (b.data = "full") <=> (b.ver > 0)}

\* one request: requests.post raises, raise_for_status raises, or a body
RemoteOutcomes ==
    {[kind |-> k, body |-> NotObject] : k \in {"ConnErr", "HttpErr"}} \cup
    {[kind |-> "Json", body |-> b] : b \in Bodies}

\* ------------------------------------------------ lru_cache
CacheHas(c, q) == \E m \in 1..Len(c) : c[m].query = q

CacheIndex(c, q) == CHOOSE m \in 1..Len(c) : c[m].query = q

Without(c, m) == [j \in 1..(Len(c) - 1) |-> IF j < m THEN c[j] ELSE c[j + 1]]

\* a hit moves the entry to the most-recent end
CacheTouch(c, q) == Append(Without(c, CacheIndex(c, q)), c[CacheIndex(c, q)])

\* a miss stores the returned value, evicting the least recent entry when full
CachePutNoStore(c, q, v) == c

CachePutEvictEarly(c, q, v) ==
    Append(IF Len(c) >= LruMaxSize - 1 THEN Tail(c) ELSE c, [query |-> q, value |-> v])

CachePut(c, q, v) ==
    Append(IF Len(c) >= LruMaxSize THEN Tail(c) ELSE c, [query |-> q, value |-> v])

\* ConsDB._query on a cache miss, the remote answering o
QueryMiss(c, q, o) ==
    CASE o.kind = "ConnErr" ->
            [exc |-> "post", value |-> NotObject, cache |-> c, net |-> o.kind]
      [] o.kind = "HttpErr" ->
            [exc |-> "raise_for_status", value |-> NotObject, cache |-> c, net |-> o.kind]
      [] OTHER ->
            [exc |-> "none", value |-> o.body, cache |-> CachePut(c, q, o.body), net |-> o.kind]

\* ConsDB._query under @lru_cache(): the possible results of one call, the
\* remote answering a request with one of outs
CachedQuery(c, q, outs) ==
    IF CacheHas(c, q)
    THEN {[exc |-> "none", value |-> c[CacheIndex(c, q)].value,
           cache |-> CacheTouch(c, q), net |-> "hit"]}
    ELSE {QueryMiss(c, q, o) : o \in outs}

\* ------------------------------------------------ ConsDB.query
TryExcNoDataCheck(r) ==
    IF r.exc # "none" THEN r.exc
    ELSE IF r.value.shape # "object" THEN "subscript"
    ELSE IF r.value.columns = "missing" THEN "columns"
    ELSE IF r.value.data = "missing" THEN "data"
    ELSE IF r.value.columns = "empty" THEN "nodata"
    ELSE "none"

\* the raise site of the exception the try block ends with, "none" when the
\* block reaches its return
TryExc(r) ==
    IF r.exc # "none" THEN r.exc
    ELSE IF r.value.shape # "object" THEN "subscript"
    ELSE IF r.value.columns = "missing" THEN "columns"
    ELSE IF r.value.data = "missing" THEN "data"
    ELSE IF r.value.columns = "empty" \/ r.value.data = "empty" THEN "nodata"
    ELSE "none"

\* class of the exception raised at a site
ExcClass(site) ==
    CASE site \in {"post", "raise_for_status", "exhausted"} -> "RequestException"
      [] site \in {"columns", "data"} -> "KeyError"
      [] site = "nodata" -> "ValueError"
      [] OTHER -> "TypeError"

CaughtNoKeyError(site) == ExcClass(site) \in {"RequestException", "ValueError"}

\* except (requests.RequestException, ValueError, KeyError)
Caught(site) == ExcClass(site) \in {"RequestException", "ValueError", "KeyError"}

\* Table(names=columns, data=np.array(data))
MakeTable(body) == [names |-> body.columns, rows |-> body.ver]

NoTable == [names |-> "missing", rows |-> 0]

NoExc == [site |-> "none", attempt |-> 0]

NoResult == [how |-> "none", via |-> "none", table |-> NoTable, exc |-> NoExc]

Returned(t) == [how |-> "return", via |-> "return", table |-> t, exc |-> NoExc]

Raised(via, e) == [how |-> "raise", via |-> via, table |-> NoTable, exc |-> e]

\* requests one call sent to the remote, and how many of them ended in a
\* network error
Requests(log) == Cardinality({m \in 1..Len(log) : log[m].net # "hit"})

NetErrs(log) == Cardinality({m \in 1..Len(log) : log[m].net \in {"ConnErr", "HttpErr"}})

\* the call leaves query(): the caller sees res
Leave(res, log) ==
    /\ pc' = "idle"
    /\ result' = res
    /\ attempts' = log
    /\ history' = Append(history, [query |-> query, n_retries |-> n_retries,
                                   result |-> res,
                                   requests |-> Requests(log),
                                   neterrs |-> NetErrs(log)])

IterationSleepFirst(r, a) ==
    LET site == TryExc(r)
        e == [site |-> site, attempt |-> a]
        entry(slept) == [net |-> r.net, value |-> r.value, site |-> site, slept |-> slept]
    IN  IF site = "none"
        THEN Leave(Returned(MakeTable(r.value)), Append(attempts, entry(FALSE)))
        ELSE IF ~Caught(site)
        THEN Leave(Raised("uncaught", e), Append(attempts, entry(FALSE)))
        ELSE IF a = n_retries
        THEN Leave(Raised("reraise", e), Append(attempts, entry(TRUE)))
        ELSE /\ attempts' = Append(attempts, entry(TRUE))
             /\ UNCHANGED <<pc, result, history>>

\* what one pass through the loop body does once _query has answered r
Iteration(r, a) ==
    LET site == TryExc(r)
        e == [site |-> site, attempt |-> a]
        entry(slept) == [net |-> r.net, value |-> r.value, site |-> site, slept |-> slept]
    IN  IF site = "none"
        THEN Leave(Returned(MakeTable(r.value)), Append(attempts, entry(FALSE)))
        ELSE IF ~Caught(site)
        THEN Leave(Raised("uncaught", e), Append(attempts, entry(FALSE)))
        ELSE IF a = n_retries
        THEN Leave(Raised("reraise", e), Append(attempts, entry(FALSE)))
        ELSE /\ attempts' = Append(attempts, entry(TRUE))
             /\ UNCHANGED <<pc, result, history>>

LoopCondInclusive(a, n) == a <= n

\* while attempt < n_retries
LoopCond(a, n) == a < n

\* a caller invokes query(q, n): attempt = 0
CallWith(q, n) ==
    /\ pc = "idle"
    /\ query' = q
    /\ n_retries' = n
    /\ pc' = "loop"
    /\ attempt' = 0
    /\ attempts' = <<>>
    /\ result' = NoResult
    /\ UNCHANGED <<cache, history>>
    /\ UNCHANGED blkVars

\* any query string, any n_retries
Call ==
    /\ Len(history) < MaxCalls
    /\ \E q \in Queries, n \in 0..MaxRetries : CallWith(q, n)

\* one iteration of `while attempt < n_retries`, the remote answering a
\* request with one of outs
AttemptWith(outs) ==
    /\ pc = "loop"
    /\ LoopCond(attempt, n_retries)
    /\ attempt' = attempt + 1
    /\ \E r \in CachedQuery(cache, query, outs) :
         /\ cache' = r.cache
         /\ Iteration(r, attempt + 1)
    /\ UNCHANGED <<query, n_retries>>
    /\ UNCHANGED blkVars

Attempt == AttemptWith(RemoteOutcomes)

\* the loop condition is false: the raise after the loop
LoopExit ==
    /\ pc = "loop"
    /\ ~LoopCond(attempt, n_retries)
    /\ Leave(Raised("after_loop", [site |-> "exhausted", attempt |-> 0]), attempts)
    /\ UNCHANGED <<cache, query, n_retries, attempt>>
    /\ UNCHANGED blkVars

\* a client right after ConsDB(token)
InitCdb ==
    /\ cache = <<>>
    /\ pc = "idle"
    /\ query = 1
    /\ n_retries = 0
    /\ attempt = 0
    /\ result = NoResult
    /\ attempts = <<>>
    /\ history = <<>>

\* ------------------------------------------------ query_exposure_records
Programs == {"P", "Q"}

\* minutes from the end of one exposure to the start of the next
Gaps == {-1, 3, 5, DefaultMaxGap, 20}

MaxGaps == {5, DefaultMaxGap}

RECURSIVE ObsStart(_, _)
\* obs_start of the k-th exposure the remote holds, given the gaps
ObsStart(gaps, k) ==
    IF k = 1 THEN 0 ELSE ObsStart(gaps, k - 1) + Exposure + gaps[k]

\* rows of the query result, ORDER BY exposure_id
RawRecords(progs, gaps) ==
    [k \in 1..Len(progs) |->
        [science_program |-> progs[k], seq_num |-> k,
         obs_start |-> ObsStart(gaps, k), obs_end |-> ObsStart(gaps, k) + Exposure]]

\* the SELECT list of the query
query_columns ==
    {"exposure_id", "day_obs", "seq_num", "science_program", "observation_reason",
     "obs_start", "obs_end"}

query_exposure_records_from_begin(rows) ==
    [k \in 1..Len(rows) |->
        [science_program |-> rows[k].science_program,
         seq_num |-> rows[k].seq_num,
         begin |-> rows[k].obs_start,
         end |-> rows[k].obs_end,
         delay |-> IF k = 1 THEN 0 ELSE rows[k].obs_start - rows[k - 1].obs_start]]

\* records["begin"], records["end"], records["delay"]
query_exposure_records(rows) ==
    [k \in 1..Len(rows) |->
        [science_program |-> rows[k].science_program,
         seq_num |-> rows[k].seq_num,
         begin |-> rows[k].obs_start,
         end |-> rows[k].obs_end,
         delay |-> IF k = 1 THEN 0 ELSE rows[k].obs_start - rows[k - 1].obs_end]]

\* ------------------------------------------------ group_into_blocks
required_columns == {"science_program", "seq_num", "begin", "end", "delay"}

EmptyTableNever(t) == FALSE

\* if len(table) == 0
EmptyTable(t) == Len(t) = 0

MissingColumnsButDelay(cols) == (required_columns \ {"delay"}) \ cols

\* missing_columns
MissingColumns(cols) == required_columns \ cols

\* table[k] for a Python index k (negative indices count from the end)
RowAt(k) == table[IF k < 0 THEN Len(table) + k + 1 ELSE k + 1]

SkipNone(k) == FALSE

\* if i == 0: continue
SkipFirst(k) == k = 0

ContinuesPreviousDelay(k) ==
    /\ RowAt(k).science_program = RowAt(k - 1).science_program
    /\ RowAt(k - 1).delay < max_gap
    /\ k # Len(table) - 1

ContinuesNonNegative(k) ==
    /\ RowAt(k).science_program = RowAt(k - 1).science_program
    /\ 0 <= RowAt(k).delay
    /\ RowAt(k).delay < max_gap
    /\ k # Len(table) - 1

\* same_program and gap_ok and not_last
Continues(k) ==
    /\ RowAt(k).science_program = RowAt(k - 1).science_program
    /\ RowAt(k).delay < max_gap
    /\ k # Len(table) - 1

EndRowPrevious(k) == k - 1

\* index of end_row = row if i == len(table) - 1 else previous_row
EndRow(k) == IF k = Len(table) - 1 THEN k ELSE k - 1

BlockDataFirstLabel(b, e) ==
    [program |-> RowAt(b).science_program,
     seq0 |-> RowAt(b).seq_num,
     seq1 |-> RowAt(e).seq_num,
     begin |-> RowAt(b).begin,
     end |-> RowAt(e).end]

\* block_data
BlockData(b, e) ==
    [program |-> RowAt(e).science_program,
     seq0 |-> RowAt(b).seq_num,
     seq1 |-> RowAt(e).seq_num,
     begin |-> RowAt(b).begin,
     end |-> RowAt(e).end]

MarkRowsExclusive(col, b, e, id) ==
    [k \in 1..Len(col) |-> IF b + 1 <= k /\ k <= e THEN id ELSE col[k]]

\* table["block"][b:e+1] = id
MarkRows(col, b, e, id) ==
    [k \in 1..Len(col) |-> IF b + 1 <= k /\ k <= e + 1 THEN id ELSE col[k]]

\* query_exposure_records once cdb.query has returned: the derived columns
Load ==
    /\ pcB = "load"
    /\ table' = query_exposure_records(raw)
    /\ colnames' = colnames \cup {"begin", "end", "delay"}
    /\ pcB' = "enter"
    /\ UNCHANGED <<raw, max_gap, i, begin_row, block_id, blocks, blockCol, outcome>>
    /\ UNCHANGED cdbVars

\* lines 140-155: the empty table, the column check, the locals
Enter ==
    /\ pcB = "enter"
    /\ IF EmptyTable(table)
       THEN /\ pcB' = "done"
            /\ outcome' = "return"
            /\ UNCHANGED <<colnames, blockCol>>
       ELSE IF MissingColumns(colnames) # {}
       THEN /\ pcB' = "done"
            /\ outcome' = "ValueError"
            /\ UNCHANGED <<colnames, blockCol>>
       ELSE /\ pcB' = "loop"
            /\ outcome' = "none"
            /\ colnames' = colnames \cup {"block"}
            /\ blockCol' = [k \in 1..Len(table) |-> Unmarked]
    /\ blocks' = <<>>
    /\ block_id' = 0
    /\ begin_row' = 0
    /\ i' = 0
    /\ UNCHANGED <<raw, table, max_gap>>
    /\ UNCHANGED cdbVars

\* one iteration of the for loop
Scan ==
    /\ pcB = "loop"
    /\ i < Len(table)
    /\ i' = i + 1
    /\ IF SkipFirst(i) \/ Continues(i)
       THEN UNCHANGED <<blocks, blockCol, begin_row, block_id>>
       ELSE /\ blocks' = Append(blocks, BlockData(begin_row, EndRow(i)))
            /\ blockCol' = MarkRows(blockCol, begin_row, EndRow(i), block_id)
            /\ begin_row' = i
            /\ block_id' = block_id + 1
    /\ UNCHANGED <<raw, table, colnames, max_gap, pcB, outcome>>
    /\ UNCHANGED cdbVars

\* the loop is exhausted: return blocks
Finish ==
    /\ pcB = "loop"
    /\ i = Len(table)
    /\ pcB' = "done"
    /\ outcome' = "return"
    /\ UNCHANGED <<raw, table, colnames, max_gap, i, begin_row, block_id, blocks, blockCol>>
    /\ UNCHANGED cdbVars

\* no call of group_into_blocks
IdleBlocks ==
    /\ raw = <<>>
    /\ table = <<>>
    /\ colnames = {}
    /\ max_gap = DefaultMaxGap
    /\ pcB = "idle"
    /\ i = 0
    /\ begin_row = 0
    /\ block_id = 0
    /\ blocks = <<>>
    /\ blockCol = <<>>
    /\ outcome = "none"

\* the tables query_exposure_records produces, up to MaxLen rows
LoadedTables ==
    UNION {{query_exposure_records(RawRecords(pr, g)) :
                pr \in [1..n -> Programs], g \in [1..n -> Gaps]} : n \in 0..MaxLen}

\* the query results cdb.query can return: at least one row
RawTables ==
    UNION {{RawRecords(pr, g) : pr \in [1..n -> Programs], g \in [1..n -> Gaps]} :
              n \in 1..MaxLen}

\* tables a caller hands to group_into_blocks directly
DirectTables ==
    {t \in LoadedTables :
        \A k \in 1..Len(t) : t[k].science_program = "P" /\ t[k].delay \in {0, 3}}

\* main: query_exposure_records has its query result and group_into_blocks
\* follows, or group_into_blocks(table, max_gap) is called on a table
InitBlocks ==
    /\ \/ /\ pcB = "load"
          /\ raw \in RawTables
          /\ table = <<>>
          /\ colnames = query_columns
       \/ /\ pcB = "enter"
          /\ raw = <<>>
          /\ table \in DirectTables
          /\ colnames \in {required_columns} \cup
                           {required_columns \ {c} : c \in required_columns}
    /\ max_gap \in MaxGaps
    /\ i = 0
    /\ begin_row = 0
    /\ block_id = 0
    /\ blocks = <<>>
    /\ blockCol = <<>>
    /\ outcome = "none"

Init == InitCdb /\ IdleBlocks

Next == Call \/ Attempt \/ LoopExit

Spec == Init /\ [][Next]_vars

\* query() runs on the caller's thread: a started iteration runs to its end
\* (each request has timeout=30, each sleep is shorter than 1.5 s)
FairSpec == Spec /\ WF_vars(Attempt) /\ WF_vars(LoopExit)

\* ---- a long-lived client: query string 1 is fetched, then up to
\* LruMaxSize new query strings, and query string 1 is issued once more
\* somewhere on the way; callers pass n_retries >= 1
Reissued == \E m \in 2..Len(history) : history[m].query = 1

\* the next query string not used so far
NewQuery == Len(history) + 1

CallFirst ==
    /\ history = <<>>
    /\ \E n \in 1..MaxRetries : CallWith(1, n)

CallNew ==
    /\ history # <<>>
    /\ history[1].result.how = "return"
    /\ ~Reissued
    /\ Len(history) < LruMaxSize + 1
    /\ CallWith(NewQuery, 1)

CallAgain ==
    /\ history # <<>>
    /\ history[1].result.how = "return"
    /\ ~Reissued
    /\ \E n \in 1..MaxRetries : CallWith(1, n)

\* the remote answers any way it can for query string 1 and with one full
\* data set for the other query strings
AttemptLru ==
    AttemptWith(IF query = 1
                THEN RemoteOutcomes
                ELSE {[kind |-> "Json",
                       body |-> [shape |-> "object", columns |-> "full",
                                 data |-> "full", ver |-> 1]]})

NextLru == CallFirst \/ CallNew \/ CallAgain \/ AttemptLru

SpecLru == Init /\ [][NextLru]_vars

InitSeg == InitCdb /\ InitBlocks

NextSeg == Load \/ Enter \/ Scan \/ Finish

SpecBlocks == InitSeg /\ [][NextSeg]_vars

\* ================================================================ claims
\* ---- vocabulary of the claims about ConsDB.query
\* the last call has left query(); attempts, query and n_retries are its own
Done == pc = "idle" /\ Len(history) > 0

\* no earlier call on this client used the query string of the last call
FirstCallOfQuery == \A m \in 1..(Len(history) - 1) : history[m].query # query

NetFail(e) == e.net \in {"ConnErr", "HttpErr"}

\* the response has a non-empty column list and a non-empty data set
GoodBody(b) == b.shape = "object" /\ b.columns = "full" /\ b.data = "full"

\* a JSON object whose columns or data are missing or empty
EmptyBody(b) == b.shape = "object" /\ (b.columns # "full" \/ b.data # "full")

\* the attempt ended in a transient failure / worked on a successful response
TransientFail(e) == NetFail(e) \/ (~NetFail(e) /\ EmptyBody(e.value))

Success(e) == ~NetFail(e) /\ GoodBody(e.value)

\* the attempts of the last call that sent a request to the remote
ReqLog == SelectSeq(attempts, LAMBDA e : e.net # "hit")

\* what the remote answered is what a remote answers that fails its first k
\* requests and succeeds on every later one
FailsFirst(k) ==
    \A j \in 1..Len(ReqLog) :
        IF j <= k THEN TransientFail(ReqLog[j]) ELSE Success(ReqLog[j])

\* C1 (retry bound): when the remote fails the first k < n_retries requests
\* for a query, by a network error or by a response with missing or empty
\* columns/data, and succeeds afterwards, query returns the successful
\* result after exactly k+1 attempts.
C1_RetryBound ==
    \A k \in 0..MaxRetries :
        (Done /\ FirstCallOfQuery /\ k < n_retries /\ FailsFirst(k))
            => /\ result.how = "return"
               /\ Len(attempts) = k + 1
               /\ Success(attempts[Len(attempts)])

\* C2 (only successes cached): every cache entry holds a response with a
\* non-empty column list and a non-empty data set, and an attempt that
\* follows a failed attempt of the same call contacts the remote again.
C2_OnlySuccessCached ==
    /\ \A m \in 1..Len(cache) : GoodBody(cache[m].value)
    /\ \A j \in 2..Len(attempts) :
           TransientFail(attempts[j - 1]) => attempts[j].net # "hit"

AllFailed == \A j \in 1..Len(attempts) : TransientFail(attempts[j])

\* the caller got the exception the final attempt raised
RaisedFinalFailure ==
    \E j \in 1..Len(attempts) :
        /\ j = Len(attempts)
        /\ result.how = "raise"
        /\ result.exc = [site |-> attempts[j].site, attempt |-> j]
        /\ result.exc.site \in {"post", "raise_for_status", "columns", "data", "nodata"}

C5_ValidatedResult ==
    (Done /\ result.how = "return")
        => \E j \in 1..Len(attempts) :
               /\ j = Len(attempts)
               /\ Success(attempts[j])
               /\ result.table = [names |-> "full", rows |-> attempts[j].value.ver]

\* a call returned a table after a failed first attempt
C5_Witness ==
    /\ Done
    /\ result.how = "return"
    /\ Len(attempts) >= 2
    /\ result.table.rows >= 1

\* ---- vocabulary of the claims about group_into_blocks
\* group_into_blocks returned its block list for a table with all columns
Segmented == pcB = "done" /\ outcome = "return" /\ required_columns \subseteq colnames

\* the block begins at the begin of row f and ends at the end of row l
Spans(b, f, l) ==
    /\ f <= l
    /\ table[f].begin = b.begin
    /\ table[l].end = b.end
    /\ table[f].seq_num = b.seq0
    /\ table[l].seq_num = b.seq1

HasSpan(b) == \E f, l \in 1..Len(table) : Spans(b, f, l)

FirstRow(b) == CHOOSE f \in 1..Len(table) : \E l \in 1..Len(table) : Spans(b, f, l)

LastRow(b) == CHOOSE l \in 1..Len(table) : \E f \in 1..Len(table) : Spans(b, f, l)

\* C6 (partition): for a table of at least 2 records the returned blocks
\* partition the records: the first block starts at the first record, the
\* last block ends at the last record, each block starts right after the
\* previous block's last record, and every record lies in exactly one block.
C6_Partition ==
    (Segmented /\ Len(table) >= 2)
        => /\ Len(blocks) >= 1
           /\ \A k \in 1..Len(blocks) : HasSpan(blocks[k])
           /\ FirstRow(blocks[1]) = 1
           /\ LastRow(blocks[Len(blocks)]) = Len(table)
           /\ \A k \in 1..(Len(blocks) - 1) :
                  FirstRow(blocks[k + 1]) = LastRow(blocks[k]) + 1
           /\ \A r \in 1..Len(table) :
                  Cardinality({k \in 1..Len(blocks) :
                      FirstRow(blocks[k]) <= r /\ r <= LastRow(blocks[k])}) = 1

\* a table of at least 3 records was cut into at least 2 blocks
C6_Witness ==
    /\ Segmented
    /\ Len(table) >= 3
    /\ Len(blocks) >= 2

\* C7 (category boundary): when every delay is below max_gap, every
\* returned block spans records of a single program label.
C7_CategoryBoundary ==
    (Segmented /\ Len(table) >= 2 /\ \A r \in 2..Len(table) : table[r].delay < max_gap)
        => \A k \in 1..Len(blocks) :
               /\ HasSpan(blocks[k])
               /\ \A r \in FirstRow(blocks[k])..(LastRow(blocks[k]) - 1) :
                      table[r].science_program = table[r + 1].science_program

\* C8 (gap boundary): no returned block spans a record whose delay to its
\* predecessor in the block is max_gap or more.
C8_GapBoundary ==
    (Segmented /\ Len(table) >= 2)
        => \A k \in 1..Len(blocks) :
               /\ HasSpan(blocks[k])
               /\ \A r \in (FirstRow(blocks[k]) + 1)..LastRow(blocks[k]) :
                      table[r].delay < max_gap

\* C9 (closing record): a scan step at index i >= 1 that does not continue
\* the block appends the block (label of the closing record, seq_num and
\* begin of the record at begin_row, seq_num and end of the closing record),
\* the closing record being record i at the last index and record i-1
\* otherwise, and moves begin_row to i; begin_row is 0 until the first block.
C9_ClosingRecord ==
    /\ []((pcB = "loop" /\ blocks = <<>>) => begin_row = 0)
    /\ [][(/\ pcB = "loop"
           /\ 1 <= i
           /\ i < Len(table)
           /\ ~(/\ table[i + 1].science_program = table[i].science_program
                /\ table[i + 1].delay < max_gap
                /\ i # Len(table) - 1))
          => LET c == IF i = Len(table) - 1 THEN i + 1 ELSE i
             IN  /\ blocks' = Append(blocks,
                        [program |-> table[c].science_program,
                         seq0 |-> table[begin_row + 1].seq_num,
                         seq1 |-> table[c].seq_num,
                         begin |-> table[begin_row + 1].begin,
                         end |-> table[c].end])
                 /\ begin_row' = i]_vars

\* blocks were closed both before the last index and at the last index
C9_Witness ==
    /\ Segmented
    /\ Len(blocks) >= 2
    /\ begin_row = Len(table) - 1
    /\ blocks[Len(blocks)].program # blocks[1].program

\* C10 (single record): a one-record table with all required columns yields
\* zero blocks.
C10_SingleRecord ==
    (pcB = "done" /\ Len(table) = 1 /\ required_columns \subseteq colnames)
        => outcome = "return" /\ blocks = <<>>

\* group_into_blocks returned for a one-record table
C10_Witness ==
    /\ Segmented
    /\ Len(table) = 1
    /\ i = 1

C13_DelayDerivation ==
    (pcB \in {"enter", "loop", "done"} /\ raw # <<>>)
        => /\ Len(table) = Len(raw)
           /\ table[1].delay = 0
           /\ \A k \in 1..Len(table) :
                  /\ table[k].begin = raw[k].obs_start
                  /\ table[k].end = raw[k].obs_end
           /\ \A k \in 2..Len(table) :
                  table[k].delay = raw[k].obs_start - raw[k - 1].obs_end
           /\ (\A k \in 2..Len(table) : raw[k].obs_start >= raw[k - 1].obs_end)
                  => \A k \in 1..Len(table) : table[k].delay >= 0

\* records were loaded whose exposures do not overlap and are not back to back
C13_Witness ==
    /\ pcB = "enter"
    /\ Len(raw) >= 3
    /\ \A k \in 2..Len(raw) : raw[k].obs_start > raw[k - 1].obs_end
    /\ \A k \in 2..Len(table) : table[k].delay > 0

\* C14 (block maximality): the first record of every block but the first
\* has a program label different from the record before it or a delay of
\* max_gap or more; a record at a non-last index with its predecessor's
\* label and a delay below max_gap is in its predecessor's block.
C14_Maximality ==
    (Segmented /\ Len(table) >= 2)
        => /\ \A k \in 2..Len(blocks) :
                  /\ HasSpan(blocks[k])
                  /\ FirstRow(blocks[k]) >= 2
                  /\ \/ table[FirstRow(blocks[k])].science_program
                            # table[FirstRow(blocks[k]) - 1].science_program
                     \/ table[FirstRow(blocks[k])].delay >= max_gap
           /\ \A r \in 2..(Len(table) - 1) :
                  (/\ table[r].science_program = table[r - 1].science_program
                   /\ table[r].delay < max_gap)
                      => \E k \in 1..Len(blocks) :
                             /\ HasSpan(blocks[k])
                             /\ FirstRow(blocks[k]) <= r - 1
                             /\ r <= LastRow(blocks[k])

\* one boundary was placed at a long delay between records of one label,
\* another at a label change after a short delay
C14_Witness ==
    /\ Segmented
    /\ Len(blocks) >= 3
    /\ \E k \in 2..Len(blocks) :
           /\ HasSpan(blocks[k])
           /\ table[FirstRow(blocks[k])].delay >= max_gap
           /\ table[FirstRow(blocks[k])].science_program
                  = table[FirstRow(blocks[k]) - 1].science_program
    /\ \E k \in 2..Len(blocks) :
           /\ HasSpan(blocks[k])
           /\ table[FirstRow(blocks[k])].delay < max_gap

\* C17 (validation): for a non-empty table that lacks a required column
\* group_into_blocks raises ValueError with no block emitted and no block
\* column added; with all required columns present it returns.
C17_Validation ==
    /\ []((pcB = "done" /\ Len(table) >= 1)
            => IF required_columns \ colnames # {}
               THEN /\ outcome = "ValueError"
                    /\ blocks = <<>>
                    /\ blockCol = <<>>
                    /\ "block" \notin colnames
               ELSE outcome = "return")
    /\ [][(pcB = "enter" /\ Len(table) >= 1 /\ required_columns \ colnames # {})
            => (pcB' = "done" /\ UNCHANGED <<table, colnames, blockCol, blocks>>)]_vars

\* group_into_blocks raised for a table of several rows without its delay column
C17_Witness ==
    /\ pcB = "done"
    /\ Len(table) >= 2
    /\ "delay" \notin colnames
    /\ outcome = "ValueError"

\* the table has all required columns and a record that begins before its
\* predecessor ends
MisOrdered ==
    /\ required_columns \subseteq colnames
    /\ \E r \in 2..Len(table) : table[r].delay < 0

\* C18 as stated (fail fast): for a mis-ordered record sequence
\* group_into_blocks fails with an error rather than returning a block list.
C18_FailFast == (pcB = "done" /\ MisOrdered) => outcome # "return"

\* C18 (amended): for a mis-ordered record sequence and max_gap >= 0
\* group_into_blocks does not fail: it returns a block list in which a
\* negative delay counts as a gap below max_gap and forces no boundary.
C18_NoOrderCheck ==
    (pcB = "done" /\ MisOrdered /\ max_gap >= 0)
        => /\ outcome = "return"
           /\ Len(blocks) >= 1
           /\ \A k \in 2..Len(blocks) :
                  /\ HasSpan(blocks[k])
                  /\ FirstRow(blocks[k]) >= 2
                  /\ table[FirstRow(blocks[k])].delay < 0
                         => table[FirstRow(blocks[k])].science_program
                                # table[FirstRow(blocks[k]) - 1].science_program

\* blocks were returned, one of them spanning a record with a negative delay
C18_Witness ==
    /\ pcB = "done"
    /\ MisOrdered
    /\ outcome = "return"
    /\ \E k \in 1..Len(blocks) :
           /\ HasSpan(blocks[k])
           /\ LastRow(blocks[k]) < Len(table)
           /\ \E r \in (FirstRow(blocks[k]) + 1)..LastRow(blocks[k]) : table[r].delay < 0

\* C20 (block marks): after group_into_blocks returns for a table of at
\* least 2 records, the block column gives every row the 0-based position of
\* the returned block that spans it: no row keeps -999, the marks do not
\* decrease along the table and take exactly the values 0 .. len(blocks)-1;
\* for a one-record table the single row keeps -999.
C20_BlockMarks ==
    /\ (Segmented /\ Len(table) >= 2)
           => /\ Len(blockCol) = Len(table)
              /\ \A r \in 1..Len(table) :
                     /\ blockCol[r] # -999
                     /\ \E k \in 1..Len(blocks) :
                            /\ HasSpan(blocks[k])
                            /\ FirstRow(blocks[k]) <= r
                            /\ r <= LastRow(blocks[k])
                            /\ blockCol[r] = k - 1
              /\ \A r \in 2..Len(table) : blockCol[r - 1] <= blockCol[r]
              /\ {blockCol[r] : r \in 1..Len(table)} = 0..(Len(blocks) - 1)
    /\ (Segmented /\ Len(table) = 1) => blockCol = <<-999>>

\* a table of at least 3 rows was marked with at least 2 block numbers
C20_Witness ==
    /\ Segmented
    /\ Len(table) >= 3
    /\ blockCol[1] = 0
    /\ blockCol[Len(table)] >= 1

\* C15 (bounded retry): a call of query makes at most n_retries attempts and
\* sends at most n_retries requests, and it ends by returning or raising.
C15_BoundedRetry ==
    /\ [](/\ attempt <= n_retries
          /\ Len(attempts) <= n_retries
          /\ Cardinality({j \in 1..Len(attempts) : attempts[j].net # "hit"}) <= n_retries)
    /\ [](Done => result.how \in {"return", "raise"})
    /\ (pc = "loop") ~> (pc = "idle")

\* a call ended only after it had used all of its 3 or more attempts, each
\* with a request to the remote
C15_Witness ==
    /\ Done
    /\ n_retries >= 3
    /\ Len(attempts) = n_retries
    /\ \A j \in 1..Len(attempts) : attempts[j].net # "hit"

\* C16 (raise after the loop is dead code): every call of query leaves
\* through the return inside the try block or the re-raise inside the
\* except block, never through the raise placed after the loop.
C16_AfterLoopUnreached ==
    Done => (result.via # "after_loop" /\ result.via \in {"return", "reraise"})

\* C19 (backoff ordering): within a call a sleep follows an attempt exactly
\* when the attempt failed and was not attempt number n_retries; while the
\* call runs every attempt made so far was followed by a sleep, and a call
\* that ended after m >= 1 attempts slept after each of its first m-1
\* attempts and not after the last one.
C19_BackoffOrdering ==
    /\ \A j \in 1..Len(attempts) :
           attempts[j].slept <=> (TransientFail(attempts[j]) /\ j < n_retries)
    /\ pc = "loop" => \A j \in 1..Len(attempts) : attempts[j].slept
    /\ (Done /\ Len(attempts) >= 1)
           => /\ \A j \in 1..Len(attempts) : attempts[j].slept <=> j < Len(attempts)
              /\ Cardinality({j \in 1..Len(attempts) : attempts[j].slept})
                     = Len(attempts) - 1

\* a call slept twice and then failed on its third and final attempt
C19_Witness ==
    /\ Done
    /\ n_retries = 3
    /\ Len(attempts) = 3
    /\ attempts[1].slept
    /\ attempts[2].slept
    /\ result.how = "raise"

\* the distinct other query strings executed between calls m and j
Between(m, j) == {history[x].query : x \in (m + 1)..(j - 1)} \ {history[m].query}

====
